---- MODULE Spec2Model ----
(***************************************************************************)
(* The Consul resolver/watcher of grpctools (naming/consul): the           *)
(* construction-time fetch, the background updater, the update channel,    *)
(* Next and Close, and the instance differ makeUpdates.                    *)
(***************************************************************************)
EXTENDS Integers, Sequences, FiniteSets, TLC

\* ------------------------------------------------------------------ bounds
NumHosts == 2      \* distinct host addresses the registry knows
DiffMaxLen == 3    \* longest address list handed to makeUpdates on its own
MaxIndex == 2      \* highest index the registry reaches
MaxFails == 2      \* longest run of consecutive failed fetches
MaxNext == 2       \* Next calls the consumer makes
NumClosers == 2    \* Close calls made

\* --------------------------------------------------------- program constants
ChanCap == 1       \* make(chan []*naming.Update, 1)
InitialIndex == 0  \* r.getInstances(0)

Hosts == 1..NumHosts
NoAddress == 0                 \* the empty string in service.Service.Address
NodeHost == CHOOSE h \in Hosts : \A g \in Hosts : h <= g   \* the node's host
ServicePort == CHOOSE p \in {80} : TRUE                     \* the port served
Closers == 1..NumClosers

VARIABLES
    regServices,   \* the registry: health entries of the service, in answer order
    regIndex,      \* the registry: meta.LastIndex
    ctorPc,        \* "new" before NewConsulResolver, "done" after it returned
    ctorErr,       \* the error NewConsulResolver returned
    chanQuit,      \* r.chanQuit: "open" or "closed"
    chanUpdates,   \* r.chanUpdates: [buf, closed]
    pollerPc,      \* backgroundUpdater: "idle" (not started), "select", "fetch",
                   \*                    "send", "exited" (returned)
    oldInstances,  \* backgroundUpdater's local oldInstances
    newInstances,  \* backgroundUpdater's local newInstances
    lastIndex,     \* backgroundUpdater's parameter lastIndex
    err,           \* backgroundUpdater's local err
    updates,       \* backgroundUpdater's local updates, while it is being sent
    waitIndex,     \* QueryOptions.WaitIndex of the poller's current query
    nextPc,        \* Next: "idle" or "recv" (inside the channel receive)
    closePc,       \* Close, per call: "idle", "closeQuit", "closeUpdates", "returned"
    crashed,       \* an unrecovered panic ended the process
    published,     \* history: the batches the channel accepted, in order,
                   \*          each as the set of its events
    returned,      \* history: the results of the Next calls, in order,
                   \*          each batch as the set of its events
    ctorFetch,     \* history: the result of the construction-time fetch
    failStreak,    \* history: consecutive failed poller fetches so far
    streakIndex,   \* history: the wait index of the first fetch of the streak
    streakPub,     \* history: Len(published) when the streak began
    sawQuit,       \* history: the poller took the <-r.chanQuit branch
    pubSnapshot,   \* history: per published batch, the instance set the
                   \*          publisher held as its new snapshot
    lastGood,      \* history: the instance set of the last successful fetch
    dPc, dOld, dNew, dOut   \* makeUpdates on its own: inputs and result

progVars == <<regServices, regIndex, ctorPc, ctorErr, chanQuit, chanUpdates,
              pollerPc, oldInstances, newInstances, lastIndex, err, updates,
              waitIndex, nextPc, closePc, crashed, published, returned,
              ctorFetch, failStreak, streakIndex, streakPub, sawQuit,
              pubSnapshot, lastGood>>
diffVars == <<dPc, dOld, dNew, dOut>>
vars == <<progVars, diffVars>>

\* ------------------------------------------------------------------ helpers
SeqsUpTo(S, n) == UNION {[1..k -> S] : k \in 0..n}

\* net.JoinHostPort(s, strconv.Itoa(port))
JoinHostPort(s, port) == <<s, port>>

Addresses == {JoinHostPort(h, ServicePort) : h \in Hosts}

\* The loop body of getInstances: the service's own address, or the node's
\* when the service registered none.
instanceAddr(service) ==
    LET s == IF service.ServiceAddress = NoAddress
             THEN service.NodeAddress ELSE service.ServiceAddress
    IN  JoinHostPort(s, service.Port)

getInstancesWrongIndex(wait, ok) ==
    IF ~ok
    THEN [instances |-> <<>>, index |-> InitialIndex, err |-> "error"]
    ELSE [instances |-> [i \in DOMAIN regServices |-> instanceAddr(regServices[i])],
          index |-> regIndex, err |-> "nil"]

getInstancesStale(wait, ok) ==
    [instances |-> [i \in DOMAIN regServices |-> instanceAddr(regServices[i])],
     index |-> IF ok THEN regIndex ELSE wait,
     err |-> IF ok THEN "nil" ELSE "error"]

\* getInstances(lastIndex): ok says whether the registry query succeeded.
getInstances(wait, ok) ==
    IF ~ok
    THEN [instances |-> <<>>, index |-> wait, err |-> "error"]
    ELSE [instances |-> [i \in DOMAIN regServices |-> instanceAddr(regServices[i])],
          index |-> regIndex, err |-> "nil"]

\* map[string]struct{} built from a list: its key set.
MapOf(instances) == {instances[i] : i \in DOMAIN instances}

\* The orders in which a range over a map can visit its keys.
RangeOrders(m) ==
    {s \in [1..Cardinality(m) -> m] : \A i, j \in DOMAIN s : i # j => s[i] # s[j]}

Update(op, addr) == [Op |-> op, Addr |-> addr]

\* One loop of makeUpdates: an update for every visited address not in other.
UpdatesFor(order, other, op) ==
    LET kept == SelectSeq(order, LAMBDA a : a \notin other)
    IN  [i \in DOMAIN kept |-> Update(op, kept[i])]

makeUpdatesNoDedup(oldList, newList) ==
    {UpdatesFor(newList, MapOf(oldList), "Add")
        \o UpdatesFor(oldList, MapOf(newList), "Delete")}

makeUpdatesNoDelete(oldList, newList) ==
    {UpdatesFor(p, MapOf(oldList), "Add") : p \in RangeOrders(MapOf(newList))}

\* makeUpdates(oldInstances, newInstances): the slices it can return.
makeUpdates(oldList, newList) ==
    LET oldAddr == MapOf(oldList)
        newAddr == MapOf(newList)
    IN  {UpdatesFor(p, oldAddr, "Add") \o UpdatesFor(q, newAddr, "Delete") :
            p \in RangeOrders(newAddr), q \in RangeOrders(oldAddr)}

\* The events of a batch, as a set.
BatchSet(batch) == {batch[i] : i \in DOMAIN batch}

\* ------------------------------------------------------------------ channel
CanSendAlways(ch) == TRUE

\* A send proceeds while the buffer has room.
CanSend(ch) == Len(ch.buf) < ChanCap

ChanSendDrop(ch, v) == ch

\* A send that proceeds: the value joins the buffer.
ChanSend(ch, v) == [ch EXCEPT !.buf = Append(@, v)]

ChanPeek(ch) == ch

ChanCloseDrop(ch) == [buf |-> <<>>, closed |-> TRUE]

\* close(ch): what is buffered stays readable.
ChanClose(ch) == [ch EXCEPT !.closed = TRUE]

\* What a receive leaves in the channel.
ChanAfterRecv(ch) == IF ch.buf # <<>> THEN [ch EXCEPT !.buf = Tail(@)] ELSE ch

\* What a receive yields: the oldest buffered value, or the zero value (a nil
\* slice) of a closed and drained channel.
ChanRecvValue(ch) == IF ch.buf # <<>> THEN Head(ch.buf) ELSE <<>>

\* --------------------------------------------------------------------- Init
\* The health entry of the service on host h: the service on the node's own
\* host registers no address of its own.
Entry(h) ==
    [ServiceAddress |-> IF h = NodeHost THEN NoAddress ELSE h,
     NodeAddress |-> NodeHost, Port |-> ServicePort]

RECURSIVE EntriesOf(_)
EntriesOf(S) ==
    IF S = {} THEN <<>>
    ELSE LET m == CHOOSE x \in S : \A y \in S : x <= y
         IN  <<Entry(m)>> \o EntriesOf(S \ {m})

\* The registry's answers: any set of healthy hosts, one entry each, listed in
\* ascending order (makeUpdates reads an answer through a map, so the order of
\* an answer decides nothing).
RegLists == {EntriesOf(S) : S \in SUBSET Hosts}

\* The hosts an answer lists.
HostsOf(services) == {h \in Hosts : \E i \in DOMAIN services : services[i] = Entry(h)}

\* One registration or deregistration: host h joins or leaves.
Toggle(services, h) ==
    LET S == HostsOf(services)
    IN  EntriesOf(IF h \in S THEN S \ {h} ELSE S \cup {h})

NoFetch == [instances |-> <<>>, index |-> InitialIndex, err |-> "none"]

ProgInit ==
    /\ regServices \in RegLists
    /\ regIndex = 1
    /\ ctorPc = "new"
    /\ ctorErr = "none"
    /\ chanQuit = "open"
    /\ chanUpdates = [buf |-> <<>>, closed |-> FALSE]
    /\ pollerPc = "idle"
    /\ oldInstances = <<>>
    /\ newInstances = <<>>
    /\ lastIndex = InitialIndex
    /\ err = "nil"
    /\ updates = <<>>
    /\ waitIndex = InitialIndex
    /\ nextPc = "idle"
    /\ closePc = [c \in Closers |-> "idle"]
    /\ crashed = FALSE
    /\ published = <<>>
    /\ returned = <<>>
    /\ ctorFetch = NoFetch
    /\ failStreak = 0
    /\ streakIndex = InitialIndex
    /\ streakPub = 0
    /\ sawQuit = FALSE
    /\ pubSnapshot = <<>>
    /\ lastGood = {}

Init ==
    /\ ProgInit
    /\ dPc = "off" /\ dOld = <<>> /\ dNew = <<>> /\ dOut = <<>>

\* ----------------------------------------------------------------- registry
\* One service registers or deregisters and the registry's index advances. A
\* change reaches
\* the program only through the blocking query in flight, so the changes are
\* taken while the poller waits in one (any number of them during one query).
RegistryChange ==
    /\ ~crashed
    /\ pollerPc = "fetch"
    /\ regIndex < MaxIndex
    /\ \E h \in Hosts : regServices' = Toggle(regServices, h)
    /\ regIndex' = regIndex + 1
    /\ UNCHANGED <<pubSnapshot, lastGood>>
    /\ UNCHANGED diffVars
    /\ UNCHANGED <<ctorPc, ctorErr, chanQuit, chanUpdates, pollerPc, oldInstances,
                   newInstances, lastIndex, err, updates, waitIndex, nextPc,
                   closePc, crashed, published, returned, ctorFetch, failStreak,
                   streakIndex, streakPub, sawQuit>>

\* ------------------------------------------------------ NewConsulResolver
\* The history entry of what NewConsulResolver sent.
CtorPublished(sent) == [i \in DOMAIN sent |-> BatchSet(sent[i])]

CtorPublishNothing(u) == <<>>

CtorPublishAlways(u) == <<u>>

\* "if len(updates) > 0 { r.chanUpdates <- updates }": what is sent.
CtorPublish(u) == IF Len(u) > 0 THEN <<u>> ELSE <<>>

CtorResultFail(e) == e

\* NewConsulResolver's error result: "return r, nil".
CtorResult(e) == "nil"

NewConsulResolver ==
    /\ ctorPc = "new"
    /\ \E ok \in BOOLEAN :
         LET r == getInstances(InitialIndex, ok) IN
         \E u \in makeUpdates(<<>>, r.instances) :
            /\ chanUpdates' = [chanUpdates EXCEPT !.buf = @ \o CtorPublish(u)]
            /\ published' = published \o CtorPublished(CtorPublish(u))
            /\ oldInstances' = r.instances
            /\ lastIndex' = r.index
            /\ ctorFetch' = r
            /\ ctorErr' = CtorResult(r.err)
            /\ pubSnapshot' = pubSnapshot \o
                   [i \in DOMAIN CtorPublish(u) |-> MapOf(r.instances)]
            /\ lastGood' = IF r.err = "nil" THEN MapOf(r.instances) ELSE lastGood
    /\ pollerPc' = "select"
    /\ ctorPc' = "done"
    /\ UNCHANGED diffVars
    /\ UNCHANGED <<regServices, regIndex, chanQuit, newInstances, err, updates,
                   waitIndex, nextPc, closePc, crashed, returned, failStreak,
                   streakIndex, streakPub, sawQuit>>

\* ------------------------------------------------------- backgroundUpdater
\* "case <-r.chanQuit: break": the break leaves the select, not the for loop.
PollerOnQuit == "select"

PollerOnErrorReturn == "exited"

\* "if err != nil { ...; continue }"
PollerOnError == "select"

SnapshotAfterErrorAssigned(old, new) == new

\* oldInstances after a failed fetch: the continue skips
\* "oldInstances = newInstances".
SnapshotAfterError(old, new) == old

\* The select at the top of the loop: the quit case when chanQuit is closed,
\* the default case (which starts the query) otherwise.
PollerSelect ==
    /\ ~crashed
    /\ pollerPc = "select"
    /\ \/ /\ chanQuit = "closed"
          /\ sawQuit' = TRUE
          /\ pollerPc' = PollerOnQuit
          /\ UNCHANGED waitIndex
       \/ /\ chanQuit = "open"
          /\ waitIndex' = lastIndex
          /\ pollerPc' = "fetch"
          /\ UNCHANGED sawQuit
    /\ UNCHANGED <<pubSnapshot, lastGood>>
    /\ UNCHANGED diffVars
    /\ UNCHANGED <<regServices, regIndex, ctorPc, ctorErr, chanQuit, chanUpdates,
                   oldInstances, newInstances, lastIndex, err, updates, nextPc,
                   closePc, crashed, published, returned, ctorFetch, failStreak,
                   streakIndex, streakPub>>

\* The query fails: the error is logged and the loop continues.
PollerFetchFail ==
    /\ ~crashed
    /\ pollerPc = "fetch"
    /\ failStreak < MaxFails
    /\ LET r == getInstances(waitIndex, FALSE) IN
         /\ newInstances' = r.instances
         /\ lastIndex' = r.index
         /\ err' = r.err
         /\ oldInstances' = SnapshotAfterError(oldInstances, r.instances)
    /\ pollerPc' = PollerOnError
    /\ failStreak' = failStreak + 1
    /\ streakIndex' = IF failStreak = 0 THEN waitIndex ELSE streakIndex
    /\ streakPub' = IF failStreak = 0 THEN Len(published) ELSE streakPub
    /\ UNCHANGED <<pubSnapshot, lastGood>>
    /\ UNCHANGED diffVars
    /\ UNCHANGED <<regServices, regIndex, ctorPc, ctorErr, chanQuit, chanUpdates,
                   updates, waitIndex, nextPc, closePc, crashed, published,
                   returned, ctorFetch, sawQuit>>

\* The query succeeds: the diff is computed; an empty one is not sent.
PollerFetchOk ==
    /\ ~crashed
    /\ pollerPc = "fetch"
    /\ LET r == getInstances(waitIndex, TRUE) IN
         /\ newInstances' = r.instances
         /\ lastIndex' = r.index
         /\ err' = r.err
         /\ lastGood' = MapOf(r.instances)
         /\ \E u \in makeUpdates(oldInstances, r.instances) :
              IF Len(u) > 0
              THEN /\ updates' = u
                   /\ pollerPc' = "send"
                   /\ UNCHANGED oldInstances
              ELSE /\ updates' = <<>>
                   /\ pollerPc' = "select"
                   /\ oldInstances' = r.instances
    /\ failStreak' = 0
    /\ UNCHANGED pubSnapshot
    /\ UNCHANGED diffVars
    /\ UNCHANGED <<regServices, regIndex, ctorPc, ctorErr, chanQuit, chanUpdates,
                   waitIndex, nextPc, closePc, crashed, published, returned,
                   ctorFetch, streakIndex, streakPub, sawQuit>>

\* "r.chanUpdates <- updates; oldInstances = newInstances" on an open channel
\* with room.
PollerSend ==
    /\ ~crashed
    /\ pollerPc = "send"
    /\ ~chanUpdates.closed
    /\ CanSend(chanUpdates)
    /\ chanUpdates' = ChanSend(chanUpdates, updates)
    /\ published' = Append(published, BatchSet(updates))
    /\ pubSnapshot' = Append(pubSnapshot, MapOf(newInstances))
    /\ oldInstances' = newInstances
    /\ updates' = <<>>
    /\ pollerPc' = "select"
    /\ UNCHANGED lastGood
    /\ UNCHANGED diffVars
    /\ UNCHANGED <<regServices, regIndex, ctorPc, ctorErr, chanQuit, newInstances,
                   lastIndex, err, waitIndex, nextPc, closePc, crashed, returned,
                   ctorFetch, failStreak, streakIndex, streakPub, sawQuit>>

\* "r.chanUpdates <- updates" on a closed channel: panic, the process ends.
PollerSendClosed ==
    /\ ~crashed
    /\ pollerPc = "send"
    /\ chanUpdates.closed
    /\ crashed' = TRUE
    /\ UNCHANGED <<pubSnapshot, lastGood>>
    /\ UNCHANGED diffVars
    /\ UNCHANGED <<regServices, regIndex, ctorPc, ctorErr, chanQuit, chanUpdates,
                   pollerPc, oldInstances, newInstances, lastIndex, err, updates,
                   waitIndex, nextPc, closePc, published, returned, ctorFetch,
                   failStreak, streakIndex, streakPub, sawQuit>>

\* --------------------------------------------------------------------- Next
NextResultWithErr(batch) == [updates |-> BatchSet(batch), err |-> err]

\* "return <-r.chanUpdates, nil"
NextResult(batch) == [updates |-> BatchSet(batch), err |-> "nil"]

NextCall ==
    /\ ~crashed
    /\ ctorPc = "done"
    /\ nextPc = "idle"
    /\ Len(returned) < MaxNext
    /\ nextPc' = "recv"
    /\ UNCHANGED <<pubSnapshot, lastGood>>
    /\ UNCHANGED diffVars
    /\ UNCHANGED <<regServices, regIndex, ctorPc, ctorErr, chanQuit, chanUpdates,
                   pollerPc, oldInstances, newInstances, lastIndex, err, updates,
                   waitIndex, closePc, crashed, published, returned, ctorFetch,
                   failStreak, streakIndex, streakPub, sawQuit>>

\* The receive completes: a buffered batch, or nil once closed and drained.
NextReturn ==
    /\ ~crashed
    /\ nextPc = "recv"
    /\ chanUpdates.buf # <<>> \/ chanUpdates.closed
    /\ returned' = Append(returned, NextResult(ChanRecvValue(chanUpdates)))
    /\ chanUpdates' = ChanAfterRecv(chanUpdates)
    /\ nextPc' = "idle"
    /\ UNCHANGED <<pubSnapshot, lastGood>>
    /\ UNCHANGED diffVars
    /\ UNCHANGED <<regServices, regIndex, ctorPc, ctorErr, chanQuit, pollerPc,
                   oldInstances, newInstances, lastIndex, err, updates, waitIndex,
                   closePc, crashed, published, ctorFetch, failStreak, streakIndex,
                   streakPub, sawQuit>>

\* -------------------------------------------------------------------- Close
CloseUnguarded(quit) == "closeQuit"

\* The select of Close: return when chanQuit is closed, else go on to close.
\* The calls are numbered in the order they start.
CloseSelectTarget(quit) == IF quit = "closed" THEN "returned" ELSE "closeQuit"

CloseSelect(c) ==
    /\ ~crashed
    /\ ctorPc = "done"
    /\ closePc[c] = "idle"
    /\ \A d \in Closers : d < c => closePc[d] # "idle"
    /\ closePc' = [closePc EXCEPT ![c] = CloseSelectTarget(chanQuit)]
    /\ UNCHANGED <<pubSnapshot, lastGood>>
    /\ UNCHANGED diffVars
    /\ UNCHANGED <<regServices, regIndex, ctorPc, ctorErr, chanQuit, chanUpdates,
                   pollerPc, oldInstances, newInstances, lastIndex, err, updates,
                   waitIndex, nextPc, crashed, published, returned, ctorFetch,
                   failStreak, streakIndex, streakPub, sawQuit>>

\* close(r.chanQuit); closing a closed channel panics.
CloseQuit(c) ==
    /\ ~crashed
    /\ closePc[c] = "closeQuit"
    /\ IF chanQuit = "closed"
       THEN /\ crashed' = TRUE
            /\ UNCHANGED <<chanQuit, closePc>>
       ELSE /\ chanQuit' = "closed"
            /\ closePc' = [closePc EXCEPT ![c] = "closeUpdates"]
            /\ UNCHANGED crashed
    /\ UNCHANGED <<pubSnapshot, lastGood>>
    /\ UNCHANGED diffVars
    /\ UNCHANGED <<regServices, regIndex, ctorPc, ctorErr, chanUpdates, pollerPc,
                   oldInstances, newInstances, lastIndex, err, updates, waitIndex,
                   nextPc, published, returned, ctorFetch, failStreak, streakIndex,
                   streakPub, sawQuit>>

\* close(r.chanUpdates); closing a closed channel panics.
CloseUpdates(c) ==
    /\ ~crashed
    /\ closePc[c] = "closeUpdates"
    /\ IF chanUpdates.closed
       THEN /\ crashed' = TRUE
            /\ UNCHANGED <<chanUpdates, closePc>>
       ELSE /\ chanUpdates' = ChanClose(chanUpdates)
            /\ closePc' = [closePc EXCEPT ![c] = "returned"]
            /\ UNCHANGED crashed
    /\ UNCHANGED <<pubSnapshot, lastGood>>
    /\ UNCHANGED diffVars
    /\ UNCHANGED <<regServices, regIndex, ctorPc, ctorErr, chanQuit, pollerPc,
                   oldInstances, newInstances, lastIndex, err, updates, waitIndex,
                   nextPc, published, returned, ctorFetch, failStreak, streakIndex,
                   streakPub, sawQuit>>

\* ------------------------------------------------------------ specification
Next ==
    \/ RegistryChange
    \/ NewConsulResolver
    \/ PollerSelect
    \/ PollerFetchFail
    \/ PollerFetchOk
    \/ PollerSend
    \/ PollerSendClosed
    \/ NextCall
    \/ NextReturn
    \/ \E c \in Closers : CloseSelect(c)
    \/ \E c \in Closers : CloseQuit(c)
    \/ \E c \in Closers : CloseUpdates(c)

Spec == Init /\ [][Next]_vars

\* The goroutines are scheduled fairly while the process lives.
FairSpec ==
    /\ Spec
    /\ WF_vars(PollerSelect)
    /\ WF_vars(PollerFetchOk)
    /\ WF_vars(PollerSend)
    /\ WF_vars(PollerSendClosed)
    /\ WF_vars(NextReturn)
    /\ \A c \in Closers : WF_vars(CloseQuit(c)) /\ WF_vars(CloseUpdates(c))

\* ------------------------------------------------- makeUpdates on its own
DiffLists == SeqsUpTo(Addresses, DiffMaxLen)

DiffInit ==
    /\ dPc = "in"
    /\ dOld \in DiffLists
    /\ dNew \in DiffLists
    /\ dOut = <<>>
    /\ ProgInit
    /\ regServices = <<>>

DiffApply ==
    /\ dPc = "in"
    /\ dOut' \in makeUpdates(dOld, dNew)
    /\ dPc' = "out"
    /\ UNCHANGED <<dOld, dNew, progVars>>

SpecDiff == DiffInit /\ [][DiffApply]_vars

\* ------------------------------------------------------------------- claims
Count(seq, x) == Cardinality({i \in DOMAIN seq : seq[i] = x})

InList(a, list) == \E i \in DOMAIN list : list[i] = a

\* C1: makeUpdates(old, new) holds exactly one Add for each distinct address in
\* new and not in old, exactly one Delete for each distinct address in old and
\* not in new, and nothing else; makeUpdates(A, A) is empty.
C1_DiffExact ==
    dPc = "out" =>
        /\ \A a \in Addresses :
            /\ Count(dOut, Update("Add", a)) =
                   (IF InList(a, dNew) /\ ~InList(a, dOld) THEN 1 ELSE 0)
            /\ Count(dOut, Update("Delete", a)) =
                   (IF InList(a, dOld) /\ ~InList(a, dNew) THEN 1 ELSE 0)
        /\ \A i \in DOMAIN dOut :
            dOut[i].Op \in {"Add", "Delete"} /\ dOut[i].Addr \in Addresses
        /\ (dOld = dNew => dOut = <<>>)

\* A diff of lists with repeated addresses that holds an Add and a Delete.
C1_Witness ==
    /\ dPc = "out"
    /\ \E i, j \in DOMAIN dNew : i # j /\ dNew[i] = dNew[j]
    /\ \E i, j \in DOMAIN dOld : i # j /\ dOld[i] = dOld[j]
    /\ \E i, j \in DOMAIN dOut : dOut[i].Op = "Add" /\ dOut[j].Op = "Delete"

AddsOf(instances) == {Update("Add", instances[i]) : i \in DOMAIN instances}

CtorFetchedSome ==
    ctorPc = "done" /\ ctorFetch.err = "nil" /\ ctorFetch.instances # <<>>

\* C2: when the construction-time fetch succeeds with a non-empty instance set
\* S, the first Next finds a batch waiting (it does not block) and its result
\* equals, as a set, {Add(a) : a in S}.
C2_FirstNextComplete ==
    CtorFetchedSome =>
        /\ returned = <<>> =>
              /\ chanUpdates.buf # <<>>
              /\ BatchSet(Head(chanUpdates.buf)) = AddsOf(ctorFetch.instances)
        /\ returned # <<>> =>
              returned[1].updates = AddsOf(ctorFetch.instances)

\* The first Next has returned the two instances fetched at construction, the
\* poller having published a later batch meanwhile.
C2_Witness ==
    /\ CtorFetchedSome
    /\ Len(ctorFetch.instances) = 2
    /\ Len(returned) = 1
    /\ Len(published) = 2

IsPrefix(s, t) == Len(s) <= Len(t) /\ \A i \in DOMAIN s : s[i] = t[i]

ReturnedBatches == [i \in DOMAIN returned |-> returned[i].updates]

\* C3: while the watcher is Running, the results of the Next calls so far are
\* a prefix of the batches published, in publication order.
C3_ReturnedPrefix ==
    chanQuit = "open" => IsPrefix(ReturnedBatches, published)

\* Two batches were published before the first Next, and two Next calls
\* returned them.
C3_Witness ==
    /\ chanQuit = "open"
    /\ Len(returned) = 2
    /\ Len(published) = 2
    /\ returned[1] # returned[2]

\* Exactly one Close call has been made.
OneCloseCalled == Cardinality({c \in Closers : closePc[c] # "idle"}) = 1

\* C4: a Next call blocked on the empty update channel when Close is called
\* eventually returns, in every interleaving of that Close with the poller
\* (runs in which a second Close call is made lie outside the claim).
C4_BlockedNextReturns ==
    (nextPc = "recv" /\ chanUpdates.buf = <<>> /\ OneCloseCalled)
        ~> (nextPc = "idle" \/ ~OneCloseCalled)

SomeCloseReturned == \E c \in Closers : closePc[c] = "returned"

\* C5: a Close that starts after another Close has returned goes straight to
\* its return, changing no state and raising no failure; the Close that does
\* the closing leaves both channels closed; a closed channel stays closed.
C5_CloseIdempotent ==
    [][/\ \A c \in Closers :
            (SomeCloseReturned /\ closePc[c] = "idle" /\ closePc'[c] # "idle") =>
                /\ closePc'[c] = "returned"
                /\ UNCHANGED <<chanQuit, chanUpdates, crashed, pollerPc,
                               oldInstances, lastIndex, published, returned>>
       /\ \A c \in Closers :
            (closePc[c] = "closeUpdates" /\ closePc'[c] = "returned") =>
                chanQuit' = "closed" /\ chanUpdates'.closed
       /\ (chanQuit = "closed" => chanQuit' = "closed")
       /\ (chanUpdates.closed => chanUpdates'.closed)]_vars

\* Every Close call has returned and nothing panicked.
C5_Witness ==
    /\ \A c \in Closers : closePc[c] = "returned"
    /\ chanQuit = "closed"
    /\ chanUpdates.closed
    /\ ~crashed

\* C6: once the poller has observed the shutdown signal it has left its loop.
C6_PollerExitsAfterClose ==
    sawQuit => pollerPc = "exited"

\* C7: while the watcher is Running the poller is in its loop, whatever number
\* of fetches failed; after a failed fetch it is back at the select, and from
\* the select it issues another fetch.
C7_PollerStaysInLoop ==
    (ctorPc = "done" /\ chanQuit = "open") =>
        /\ ~crashed
        /\ pollerPc \in {"select", "fetch", "send"}
        /\ failStreak > 0 => pollerPc \in {"select", "fetch"}
        /\ pollerPc = "select" => ENABLED PollerSelect

\* After two consecutive failed fetches the poller is in a third.
C7_Witness ==
    /\ chanQuit = "open"
    /\ failStreak >= 2
    /\ pollerPc = "fetch"

\* C8: during a run of consecutive failed fetches no batch is published, and
\* the wait index the poller holds, and passes to the next attempt, is the one
\* it passed to the first attempt of the run.
C8_FailuresKeepIndex ==
    failStreak > 0 =>
        /\ Len(published) = streakPub
        /\ lastIndex = streakIndex
        /\ pollerPc = "fetch" => waitIndex = streakIndex

\* The third attempt of a run is in flight, with a wait index above zero.
C8_Witness ==
    /\ failStreak >= 2
    /\ pollerPc = "fetch"
    /\ waitIndex >= 1

\* C9: when the construction-time fetch fails, NewConsulResolver returns a nil
\* error, sends nothing on the update channel and starts the poller with an
\* empty snapshot and wait index 0.
C9_CtorSoftFail ==
    [][(ctorPc = "new" /\ ctorPc' = "done" /\ ctorFetch'.err = "error") =>
          /\ ctorErr' = "nil"
          /\ chanUpdates'.buf = <<>>
          /\ published' = <<>>
          /\ pollerPc' = "select"
          /\ oldInstances' = <<>>
          /\ lastIndex' = 0]_vars

\* Construction went through a failed fetch of a registry that had instances.
C9_Witness ==
    /\ ctorPc = "done"
    /\ ctorFetch.err = "error"
    /\ regServices # <<>>
    /\ pollerPc = "select"
    /\ published = <<>>

\* C10: the error component of every result of Next is nil.
C10_NextErrNil ==
    \A i \in DOMAIN returned : returned[i].err = "nil"

\* Next returned a batch, and later the nil batch of the closed channel, the
\* poller's last fetch having failed.
C10_Witness ==
    /\ Len(returned) = 2
    /\ returned[1].updates # {}
    /\ returned[2].updates = {}
    /\ err = "error"
    /\ chanUpdates.closed

\* C11: no interleaving of Close calls brings a call to close a channel that
\* is already closed: no call stands at close(r.chanQuit) with chanQuit
\* closed, nor at close(r.chanUpdates) with chanUpdates closed, and no Close
\* panics.
C11_CloseOnce ==
    \A c \in Closers :
        /\ ~(closePc[c] = "closeQuit" /\ chanQuit = "closed")
        /\ ~(closePc[c] = "closeUpdates" /\ chanUpdates.closed)

\* C12: the poller never stands at "r.chanUpdates <- updates" with
\* chanUpdates closed.
C12_NoSendAfterClose ==
    ~(pollerPc = "send" /\ chanUpdates.closed)

\* The batches computed and not yet returned by Next: those in the channel
\* and the one the poller is sending.
PendingBatches == Len(chanUpdates.buf) + (IF pollerPc = "send" THEN 1 ELSE 0)

\* C13 as stated: at most one batch is computed and not yet returned.
C13_AtMostOnePending ==
    PendingBatches <= 1

\* C13 as amended: at most two batches are computed and not yet returned, at
\* most one of them in the channel and at most one in the poller's blocked
\* send; the poller is in no fetch, and starts none, while a batch it
\* computed has not been accepted by the channel.
C13_AtMostTwoPending ==
    /\ PendingBatches <= 2
    /\ Len(chanUpdates.buf) <= 1
    /\ pollerPc = "send" <=> updates # <<>>
    /\ pollerPc = "send" => ~ENABLED PollerSelect /\ ~ENABLED PollerFetchOk

\* One batch waits in the channel and the poller is blocked sending another.
C13_Witness ==
    /\ Len(chanUpdates.buf) = 1
    /\ pollerPc = "send"
    /\ chanQuit = "open"
    /\ BatchSet(updates) # BatchSet(chanUpdates.buf[1])

\* The events that turn the instance set old into the instance set new.
DiffSet(old, new) ==
    {Update("Add", a) : a \in new \ old} \cup {Update("Delete", a) : a \in old \ new}

\* A consumer applying one batch, and a sequence of batches, to its set.
ApplyBatch(S, b) ==
    (S \cup {u.Addr : u \in {x \in b : x.Op = "Add"}})
        \ {u.Addr : u \in {x \in b : x.Op = "Delete"}}

RECURSIVE ApplyAll(_, _)
ApplyAll(S, batches) ==
    IF batches = <<>> THEN S
    ELSE ApplyAll(ApplyBatch(S, Head(batches)), Tail(batches))

\* The Next results that carry a batch (a closed, drained channel yields nil).
ReturnedCount == Cardinality({i \in DOMAIN returned : returned[i].updates # {}})

\* A poller step that ends a fetch with success, and with failure.
FetchSucceeds == pollerPc = "fetch" /\ pollerPc' # "fetch" /\ err' = "nil"

FetchFails == pollerPc = "fetch" /\ pollerPc' # "fetch" /\ err' = "error"

CtorStep == ctorPc = "new" /\ ctorPc' = "done"

\* C14: with S0 empty and Si the set of the i-th successful fetch, a
\* successful fetch is diffed against the set of the one before it, a batch
\* goes out exactly when the two differ, and every published batch is that
\* diff; so the batches Next returned, applied in order to the empty set, give
\* the snapshot the publisher held at the last of them.
C14_BatchesAreConsecutiveDiffs ==
    [][/\ CtorStep =>
            /\ Len(published') = (IF lastGood' # {} THEN 1 ELSE 0)
            /\ \A i \in DOMAIN published' : published'[i] = DiffSet({}, lastGood')
       /\ FetchSucceeds =>
            /\ MapOf(oldInstances) = lastGood
            /\ pollerPc' = "send" <=> lastGood' # lastGood
            /\ pollerPc' = "send" => BatchSet(updates') = DiffSet(lastGood, lastGood')
       /\ (pollerPc = "send" /\ pollerPc' = "select") =>
            /\ published' = Append(published, DiffSet(MapOf(oldInstances), lastGood))
            /\ MapOf(oldInstances') = lastGood
       /\ \A k \in DOMAIN published' :
            pubSnapshot'[k] = ApplyAll({}, SubSeq(published', 1, k))
       /\ ApplyAll({}, ReturnedBatches') =
            (IF ReturnedCount' = 0 THEN {} ELSE pubSnapshot'[ReturnedCount'])]_vars

\* Next returned two batches, the second holding a Delete.
C14_Witness ==
    /\ Len(returned) = 2
    /\ returned[1].updates # {}
    /\ \E u \in returned[2].updates : u.Op = "Delete"
    /\ ApplyAll({}, ReturnedBatches) = lastGood

\* C15: a failed fetch leaves the stored snapshot as it was; the first
\* successful fetch after failed ones is diffed against the set of the last
\* successful fetch, so it holds no Delete for an instance still in the
\* registry and no Add for an instance already sent to the consumer.
C15_FailureKeepsSnapshot ==
    [][/\ FetchFails => oldInstances' = oldInstances /\ lastGood' = lastGood
       /\ (FetchSucceeds /\ failStreak > 0) =>
            /\ MapOf(oldInstances) = lastGood
            /\ BatchSet(updates') = DiffSet(lastGood, MapOf(newInstances'))
            /\ \A u \in BatchSet(updates') :
                /\ u.Op = "Delete" => u.Addr \notin MapOf(newInstances')
                /\ u.Op = "Add" => u.Addr \notin ApplyAll({}, published)]_vars

\* After two failed fetches the poller, still holding the instances it
\* fetched last, is in a fetch of a registry that has changed since.
C15_Witness ==
    /\ failStreak >= 2
    /\ pollerPc = "fetch"
    /\ oldInstances # <<>>
    /\ MapOf(oldInstances) = lastGood
    /\ MapOf(getInstances(waitIndex, TRUE).instances) # lastGood

\* C16: the wait index is 0 at the construction-time fetch, becomes the
\* registry's index at each successful fetch, is left alone by a failed one,
\* and never decreases; each query of the poller is given the index it holds.
C16_WaitIndexMonotone ==
    [][/\ lastIndex' >= lastIndex
       /\ waitIndex' >= waitIndex
       /\ CtorStep =>
            /\ lastIndex = 0
            /\ lastIndex' = (IF ctorFetch'.err = "nil" THEN regIndex ELSE 0)
       /\ FetchSucceeds => lastIndex' = regIndex
       /\ FetchFails => lastIndex' = lastIndex /\ lastIndex' = waitIndex
       /\ (pollerPc = "select" /\ pollerPc' = "fetch") => waitIndex' = lastIndex]_vars

\* A fetch is in flight with the index of the second registry state, after a
\* failed fetch with that index.
C16_Witness ==
    /\ pollerPc = "fetch"
    /\ waitIndex >= 2
    /\ failStreak >= 1
    /\ streakIndex = waitIndex

\* C17: every batch published, buffered or being sent holds an event, every
\* batch Next returned while the watcher is Running holds one, and the poller
\* sends only when the fetched set differs from its snapshot.
C17_OnlyNonEmptyDiffs ==
    /\ \A i \in DOMAIN published : published[i] # {}
    /\ \A i \in DOMAIN chanUpdates.buf : chanUpdates.buf[i] # <<>>
    /\ pollerPc = "send" =>
          updates # <<>> /\ MapOf(newInstances) # MapOf(oldInstances)
    /\ chanQuit = "open" => \A i \in DOMAIN returned : returned[i].updates # {}

\* Construction published the instances, Next returned them, and a later
\* successful fetch of the same set published nothing.
C17_Witness ==
    /\ CtorFetchedSome
    /\ pollerPc = "select"
    /\ failStreak = 0
    /\ newInstances # <<>>
    /\ MapOf(newInstances) = MapOf(oldInstances)
    /\ Len(published) = 1
    /\ Len(returned) = 1
    /\ chanQuit = "open"

\* The instances the registry lists now.
RegistrySet == MapOf(getInstances(lastIndex, TRUE).instances)

NeverClosed == \A c \in Closers : closePc[c] = "idle"

\* The consumer keeps calling Next: it is inside Next again and again, until
\* it has made the MaxNext calls of the model (the registry changes fewer than
\* MaxIndex times, so no more than MaxIndex = MaxNext batches are published).
ConsumerKeepsCalling == []<>(nextPc = "recv" \/ Len(returned) = MaxNext)

\* C18: if the watcher is never closed and the consumer keeps calling Next,
\* then, the poller and the consumer being scheduled fairly, fetches
\* succeeding in the end and the registry changing finitely often, the batches
\* returned by Next, applied in order to the empty set, eventually give the
\* registry's membership and keep giving it.
C18_ConsumerConverges ==
    ([]NeverClosed /\ ConsumerKeepsCalling)
        => <>[](ApplyAll({}, ReturnedBatches) = RegistrySet)

\* The registry changed after construction and two Next calls returned the
\* membership in two batches, the watcher open.
C18_Witness ==
    /\ NeverClosed
    /\ regIndex >= 2
    /\ Len(returned) = 2
    /\ RegistrySet # {}
    /\ ApplyAll({}, ReturnedBatches) = RegistrySet

\* A step on which a Next call returns.
NextReturns == nextPc = "recv" /\ nextPc' = "idle"

\* The batch published and not yet returned, if there is one; else the nil batch.
BufferedOrNil ==
    IF ReturnedCount < Len(published) THEN published[ReturnedCount + 1] ELSE {}

\* C19: once Close has closed the update channel, a Next call returns the batch
\* that was buffered when Close ran, and with the channel drained it returns
\* the nil batch; the error is nil in both cases, and a Next call inside its
\* receive is never blocked (while the process lives, its receive can complete).
C19_NextAfterClose ==
    /\ [][(NextReturns /\ chanUpdates.closed) =>
            /\ Len(returned') = Len(returned) + 1
            /\ returned'[Len(returned')].err = "nil"
            /\ returned'[Len(returned')].updates = BufferedOrNil]_vars
    /\ []((chanUpdates.closed /\ nextPc = "recv" /\ ~crashed) => ENABLED NextReturn)

\* The channel is closed; Next returned the one batch published and then, the
\* channel drained, the nil batch.
C19_Witness ==
    /\ chanUpdates.closed
    /\ ~crashed
    /\ Len(published) = 1
    /\ Len(returned) = 2
    /\ returned[1].updates = published[1]
    /\ returned[2] = [updates |-> {}, err |-> "nil"]

\* A step of a Next call (its call or its return), and a step of a Close call.
NextStep == nextPc' # nextPc

CloseStep == closePc' # closePc

\* The poller's step that follows a successful fetch: the fetch itself, or the
\* send of the batch it computed.
AfterGoodFetch ==
    \/ FetchSucceeds
    \/ pollerPc = "send" /\ pollerPc' = "select" /\ err = "nil"

\* C20: once the watcher is constructed, Next and Close leave the poller's
\* snapshot and wait index unchanged, only the poller's successful fetch
\* changes either of them, and Next changes nothing of the watcher except that
\* it removes at most one batch from the update channel.
C20_ConsumerFrame ==
    [][ctorPc = "done" =>
        /\ (NextStep \/ CloseStep) =>
              UNCHANGED <<oldInstances, lastIndex, waitIndex>>
        /\ (oldInstances' # oldInstances \/ lastIndex' # lastIndex) =>
              AfterGoodFetch
        /\ NextStep =>
              /\ chanUpdates'.closed = chanUpdates.closed
              /\ \/ chanUpdates'.buf = chanUpdates.buf
                 \/ /\ chanUpdates.buf # <<>>
                    /\ chanUpdates'.buf = Tail(chanUpdates.buf)
              /\ UNCHANGED <<regServices, regIndex, chanQuit, pollerPc,
                             newInstances, err, updates, closePc, crashed,
                             published>>]_vars

\* The poller has a snapshot and a raised wait index, a Next call returned a
\* batch and a Close call returned.
C20_Witness ==
    /\ ctorPc = "done"
    /\ oldInstances # <<>>
    /\ lastIndex >= 2
    /\ Len(returned) >= 1
    /\ returned[1].updates # {}
    /\ \E c \in Closers : closePc[c] = "returned"

====
